---- MODULE Spec2Model ----
(***************************************************************************)
(* A model of monorepo_factory/__main__.py: pattern defaulting, the        *)
(* dependency graph, the ordered walk of generate and the materialization  *)
(* of one repo by create_or_update_repo.                                   *)
(*                                                                         *)
(* Strings are sequences of one-character strings, so that len(), split    *)
(* and fnmatch are computed rather than assumed.  A Box record is a        *)
(* function from its keys to its values: `"clone" in repo` is              *)
(* "clone" \in DOMAIN repo.                                                *)
(***************************************************************************)
EXTENDS Integers, Sequences, FiniteSets, TLC

VARIABLES
    pc,              \* position in generate / in the defaulting pipeline
    data,            \* data.repo: the loaded records, templates and repos
    sorted_patterns, \* sort_patterns(pattern_definitions)
    repos,           \* the defaulted repo records (generate, line 170)
    results,         \* the record after each apply_defaults_to_repo call
    graph,           \* the nx.DiGraph: [nodes, succ]
    it,              \* the state of the nx.topological_sort generator
    fs,              \* the directory tree under base_path
    fs_pre,          \* fs when the latest create_or_update_repo was entered
    yielded,         \* node names the generator has yielded in this run
    materialized,    \* names create_or_update_repo was invoked on, this run
    cmds,            \* shell commands of the latest create_or_update_repo
    error,           \* the exception that ended the run, or "none"
    runs             \* number of runs of the generator started so far

vars == <<pc, data, sorted_patterns, repos, results, graph, it, fs, fs_pre,
          yielded, materialized, cmds, error, runs>>

-----------------------------------------------------------------------------
(* Bounds of the model *)

MaxRepos == 2
MaxLinks == 2
MaxPatterns == 2
MaxApplications == 2
MaxRuns == 2

-----------------------------------------------------------------------------
(* Strings *)

Str_a == <<"a">>
Str_b == <<"b">>
Str_ab == <<"a", "/", "b">>
ExternalURL == <<"u", ":", "/", "/", "x">>

Names == {Str_a, Str_b, Str_ab}

EmptyRec == [k \in {} |-> k]

RECURSIVE Split(_)
\* str.split("/"): the segments between the slashes
Split(s) ==
    IF \A i \in 1..Len(s) : s[i] # "/"
    THEN <<s>>
    ELSE LET i == CHOOSE j \in 1..Len(s) :
                      s[j] = "/" /\ \A k \in 1..(j - 1) : s[k] # "/"
         IN <<SubSeq(s, 1, i - 1)>> \o Split(SubSeq(s, i + 1, Len(s)))

RECURSIVE fnmatch(_, _)
\* fnmatch.fnmatch(name, pat) for patterns of literals, "?" and "*"
fnmatch(s, p) ==
    IF p = <<>> THEN s = <<>>
    ELSE IF Head(p) = "*"
         THEN fnmatch(s, Tail(p)) \/ (s # <<>> /\ fnmatch(Tail(s), p))
         ELSE /\ s # <<>>
              /\ (Head(p) = "?" \/ Head(p) = Head(s))
              /\ fnmatch(Tail(s), Tail(p))

-----------------------------------------------------------------------------
(* Pattern Defaulter: sort_patterns and apply_defaults_to_repo *)

RECURSIVE InsertByLength(_, _)
\* where sorted() with reverse=True puts p among the ones already placed:
\* after every pattern at least as long (the sort is stable)
InsertByLength(p, placed) ==
    IF placed = <<>> THEN <<p>>
    ELSE IF Len(Head(placed).pattern) >= Len(p.pattern)
         THEN <<Head(placed)>> \o InsertByLength(p, Tail(placed))
         ELSE <<p>> \o placed

RECURSIVE SortFrom(_, _)
SortFrom(todo, placed) ==
    IF todo = <<>> THEN placed
    ELSE SortFrom(Tail(todo), InsertByLength(Head(todo), placed))

RECURSIVE InsertByLengthAscending(_, _)
InsertByLengthAscending(p, placed) ==
    IF placed = <<>> THEN <<p>>
    ELSE IF Len(Head(placed).pattern) <= Len(p.pattern)
         THEN <<Head(placed)>> \o InsertByLengthAscending(p, Tail(placed))
         ELSE <<p>> \o placed

RECURSIVE SortAscendingFrom(_, _)
SortAscendingFrom(todo, placed) ==
    IF todo = <<>> THEN placed
    ELSE SortAscendingFrom(Tail(todo),
                           InsertByLengthAscending(Head(todo), placed))

\* sort_patterns with reverse=True left out: shortest pattern first
sort_patterns_ascending(patterns) == SortAscendingFrom(patterns, <<>>)

sort_patterns(patterns) == SortFrom(patterns, <<>>)

\* dict.setdefault
setdefault(repo, key, value) ==
    IF key \in DOMAIN repo THEN repo ELSE repo @@ (key :> value)

\* pattern.get("pattern", "*")
PatternOf(pattern) ==
    IF "pattern" \in DOMAIN pattern THEN pattern.pattern ELSE <<"*">>

RECURSIVE ApplyItems(_, _, _)
\* for key, value in pattern.items(): if key != "pattern": setdefault
ApplyItems(repo, pattern, keys) ==
    IF keys = {} THEN repo
    ELSE LET key == CHOOSE k \in keys : TRUE
         IN ApplyItems(IF key # "pattern"
                       THEN setdefault(repo, key, pattern[key])
                       ELSE repo,
                       pattern, keys \ {key})

RECURSIVE apply_first_new(_, _)
\* stops after the first matching pattern that added something
apply_first_new(repo, patterns) ==
    IF patterns = <<>> THEN repo
    ELSE LET pattern == Head(patterns)
             next == IF fnmatch(repo.name, PatternOf(pattern))
                     THEN ApplyItems(repo, pattern, DOMAIN pattern)
                     ELSE repo
         IN IF next # repo THEN next
            ELSE apply_first_new(repo, Tail(patterns))

RECURSIVE apply_defaults_to_repo(_, _)
apply_defaults_to_repo(repo, patterns) ==
    IF patterns = <<>> THEN repo
    ELSE LET pattern == Head(patterns)
         IN apply_defaults_to_repo(
                IF fnmatch(repo.name, PatternOf(pattern))
                THEN ApplyItems(repo, pattern, DOMAIN pattern)
                ELSE repo,
                Tail(patterns))

-----------------------------------------------------------------------------
(* Dependency Graph Builder: nx.DiGraph and build_dependency_graph.        *)
(* A DiGraph keeps its nodes, and each node's successors, in insertion     *)
(* order.                                                                  *)

EmptyGraph == [nodes |-> <<>>, succ |-> EmptyRec]

Range(seq) == {seq[i] : i \in 1..Len(seq)}

NodeSet(g) == Range(g.nodes)

EdgeSet(g) == {<<u, v>> \in NodeSet(g) \X NodeSet(g) : v \in Range(g.succ[u])}

\* DiGraph.add_node
add_node(g, n) ==
    IF n \in NodeSet(g) THEN g
    ELSE [nodes |-> Append(g.nodes, n), succ |-> g.succ @@ (n :> <<>>)]

\* DiGraph.add_edge: both ends become nodes, u first
add_edge(g, u, v) ==
    LET g2 == add_node(add_node(g, u), v)
    IN IF v \in Range(g2.succ[u]) THEN g2
       ELSE [g2 EXCEPT !.succ[u] = Append(@, v)]

\* the edge of line 67 with its ends exchanged
add_subrepo_edge_reversed(g, subrepo, repo) == add_edge(g, repo.name, subrepo.name)

\* line 67: graph.add_edge(subrepo.name, repo.name)
add_subrepo_edge(g, subrepo, repo) == add_edge(g, subrepo.name, repo.name)

RECURSIVE AddSubrepos(_, _, _)
\* lines 56-67: the loop over repo.subrepos
AddSubrepos(g, repo, subrepos) ==
    IF subrepos = <<>> THEN g
    ELSE LET subrepo == Head(subrepos)
             g1 == add_node(g, subrepo.name)
             g2 == IF "clone" \in DOMAIN subrepo
                   THEN add_edge(g1, subrepo.clone, subrepo.name)
                   ELSE g1
             g3 == add_subrepo_edge(g2, subrepo, repo)
         IN AddSubrepos(g3, repo, Tail(subrepos))

\* line 47 left out: a repo becomes a node only through its edges
add_repo_node_missing(g, repo) == g

\* line 47: graph.add_node(repo.name)
add_repo_node(g, repo) == add_node(g, repo.name)

\* lines 47-67: the body of the loop over repos
AddRepo(g, repo) ==
    LET g1 == add_repo_node(g, repo)
        g2 == IF "clone" \in DOMAIN repo
              THEN add_edge(g1, repo.clone, repo.name)
              ELSE g1
    IN IF "subrepos" \in DOMAIN repo
       THEN AddSubrepos(g2, repo, repo.subrepos)
       ELSE g2

RECURSIVE BuildFrom(_, _)
BuildFrom(g, rs) ==
    IF rs = <<>> THEN g ELSE BuildFrom(AddRepo(g, Head(rs)), Tail(rs))

build_dependency_graph(rs) == BuildFrom(EmptyGraph, rs)

-----------------------------------------------------------------------------
(* nx.topological_sort (line 179) as networkx implements it: a generator  *)
(* over nx.topological_generations, Kahn's algorithm by generations.      *)
(* Nothing is computed before the first next(); each generation is         *)
(* computed when the one before it is used up, and the cycle check comes   *)
(* last, after every node that could be ordered has been yielded.          *)

in_degree(g, v) == Cardinality({u \in NodeSet(g) : v \in Range(g.succ[u])})

NewIterator ==
    [state |-> "new", indegree_map |-> EmptyRec, zero_indegree |-> <<>>,
     pending |-> <<>>]

\* indegree_map = {v: d for v, d in G.in_degree() if d > 0}
\* zero_indegree = [v for v, d in G.in_degree() if d == 0]
StartIterator(g) ==
    [state |-> "running",
     indegree_map |-> [v \in {n \in NodeSet(g) : in_degree(g, n) > 0}
                          |-> in_degree(g, v)],
     zero_indegree |-> SelectSeq(g.nodes, LAMBDA v : in_degree(g, v) = 0),
     pending |-> <<>>]

RECURSIVE VisitChildren(_, _)
\* for child in G.neighbors(node): one less in indegree_map, and into
\* zero_indegree (and out of the map) when it reaches 0
VisitChildren(acc, children) ==
    IF children = <<>> THEN acc
    ELSE LET child == Head(children)
             d == acc.indegree_map[child] - 1
         IN VisitChildren(
                IF d = 0
                THEN [indegree_map |->
                          [v \in DOMAIN acc.indegree_map \ {child}
                              |-> acc.indegree_map[v]],
                      zero_indegree |-> Append(acc.zero_indegree, child)]
                ELSE [indegree_map |->
                          [acc.indegree_map EXCEPT ![child] = d],
                      zero_indegree |-> acc.zero_indegree],
                Tail(children))

RECURSIVE VisitGeneration(_, _, _)
VisitGeneration(g, acc, generation) ==
    IF generation = <<>> THEN acc
    ELSE VisitGeneration(g, VisitChildren(acc, g.succ[Head(generation)]),
                         Tail(generation))

\* one turn of `while zero_indegree:` up to its yield
NextGeneration(g, i) ==
    LET j == IF i.state = "new" THEN StartIterator(g) ELSE i
    IN IF j.zero_indegree = <<>> THEN j
       ELSE LET acc == VisitGeneration(
                           g,
                           [indegree_map |-> j.indegree_map,
                            zero_indegree |-> <<>>],
                           j.zero_indegree)
            IN [state |-> "running",
                indegree_map |-> acc.indegree_map,
                zero_indegree |-> acc.zero_indegree,
                pending |-> j.zero_indegree]

\* next() on the generator: the node it yields, StopIteration, or
\* NetworkXUnfeasible when nodes are left in indegree_map
TopoNext(g, i) ==
    LET j == IF i.pending = <<>> THEN NextGeneration(g, i) ELSE i
    IN IF j.pending # <<>>
       THEN [it |-> [j EXCEPT !.pending = Tail(@)], out |-> "item",
             node |-> Head(j.pending)]
       ELSE IF DOMAIN j.indegree_map # {}
            THEN [it |-> j, out |-> "unfeasible", node |-> <<>>]
            ELSE [it |-> j, out |-> "stop", node |-> <<>>]

-----------------------------------------------------------------------------
(* The directory tree under base_path.  A path is written relative to      *)
(* base_path: os.path.join(base_path, org_name, repo_name) is the string   *)
(* org_name/repo_name.                                                     *)

Absent == [kind |-> "absent", readme |-> <<>>, committed |-> FALSE]
Directory == [kind |-> "dir", readme |-> <<>>, committed |-> FALSE]
FreshRepo == [kind |-> "repo", readme |-> <<>>, committed |-> FALSE]

\* os.path.join of two segments
JoinPath(a, b) == a \o <<"/">> \o b

Paths == Names \cup {Split(n)[1] : n \in {m \in Names : Len(Split(m)) = 2}}

EmptyTree == [p \in Paths |-> Absent]

IsUnder(q, p) ==
    /\ Len(q) > Len(p) + 1
    /\ SubSeq(q, 1, Len(p)) = p
    /\ q[Len(p) + 1] = "/"

\* os.path.exists
exists(f, p) == f[p].kind # "absent"

\* shutil.rmtree: the path and everything under it
rmtree(f, p) ==
    [q \in Paths |-> IF q = p \/ IsUnder(q, p) THEN Absent ELSE f[q]]

\* os.makedirs(p, exist_ok=True): the path and its missing parents
makedirs(f, p) ==
    [q \in Paths |-> IF (q = p \/ IsUnder(p, q)) /\ f[q].kind = "absent"
                     THEN Directory ELSE f[q]]

\* what lines 93-96 write to README.md
ReadmeText(repo) ==
    <<"#", " ">> \o repo.name
    \o (IF "description" \in DOMAIN repo
        THEN <<"\n", "\n">> \o repo.description ELSE <<>>)

-----------------------------------------------------------------------------
(* Repo Materializer: create_or_update_repo.  Every sh() call is a         *)
(* command that exits with a status the program does not control; fail_at  *)
(* says which of the call's commands exits non-zero (0: none).             *)

Command(op, args, cwd) == [op |-> op, args |-> args, cwd |-> cwd]

NoSteps == [cmds |-> <<>>, err |-> "none"]

\* next((r for r in repos if r.name == name), None), as a list of 0 or 1
Lookup(rs, name) ==
    LET found == SelectSeq(rs, LAMBDA r : r.name = name)
    IN IF found = <<>> THEN <<>> ELSE <<Head(found)>>

RECURSIVE CheckoutEach(_, _)
CheckoutEach(branches, cwd) ==
    IF branches = <<>> THEN <<>>
    ELSE <<Command("checkout -b", <<Head(branches)>>, cwd)>>
         \o CheckoutEach(Tail(branches), cwd)

\* lines 103-133: one turn of the loop over repo.subrepos.  The record
\* is looked up under repo_name, the last segment of the parent's name.
SubmoduleEntry(rs, repo, repo_name, repo_path, subrepo_entry) ==
    LET found == Lookup(rs, repo_name)
    IN IF "branches" \in DOMAIN repo /\ found = <<>>
       THEN [cmds |-> <<>>, err |-> "TypeError"]
       ELSE IF /\ "branches" \in DOMAIN repo
               /\ "branches" \in DOMAIN found[1]
               /\ repo.branches # <<>>
               /\ found[1].branches # <<>>
       THEN [cmds |-> CheckoutEach(repo.branches, repo_path), err |-> "none"]
       ELSE IF found = <<>>
       THEN [cmds |-> <<>>, err |-> "AttributeError"]
       ELSE LET subrepo == found[1]
                parts == Split(subrepo.name)
            IN IF Len(parts) \notin {1, 2}
               THEN [cmds |-> <<>>, err |-> "Exception"]
               ELSE IF "path" \notin DOMAIN subrepo
               THEN [cmds |-> <<>>, err |-> "BoxKeyError"]
               ELSE [cmds |->
                         <<Command("submodule add",
                                   <<<<".", ".", "/">> \o parts[Len(parts)]
                                         \o <<".", "g", "i", "t">>,
                                     subrepo.path>>,
                                   repo_path)>>,
                     err |-> "none"]

RECURSIVE SubmoduleLoop(_, _, _, _, _)
SubmoduleLoop(rs, repo, repo_name, repo_path, entries) ==
    IF entries = <<>> THEN NoSteps
    ELSE LET one == SubmoduleEntry(rs, repo, repo_name, repo_path,
                                   Head(entries))
             rest == SubmoduleLoop(rs, repo, repo_name, repo_path,
                                   Tail(entries))
         IN IF one.err # "none" THEN one
            ELSE [cmds |-> one.cmds \o rest.cmds, err |-> rest.err]

\* lines 101-133
SubmoduleSteps(rs, repo, repo_name, repo_path) ==
    IF "submodules" \notin DOMAIN repo THEN NoSteps
    ELSE IF "subrepos" \notin DOMAIN repo
    THEN [cmds |-> <<>>, err |-> "BoxKeyError"]
    ELSE SubmoduleLoop(rs, repo, repo_name, repo_path, repo.subrepos)

\* lines 135-138; branch_order is the order in which the set
\* set(repo.branches) - currently_created_branches is iterated
BranchSteps(repo, repo_path, branch_order) ==
    IF "branches" \notin DOMAIN repo THEN NoSteps
    ELSE [cmds |-> CheckoutEach(branch_order, repo_path)
                   \o <<Command("checkout main", <<>>, repo_path)>>,
          err |-> "none"]

\* the orders in which a set of the list's elements can be iterated
BranchOrders(repo) ==
    IF "branches" \notin DOMAIN repo THEN {<<>>}
    ELSE LET S == Range(repo.branches)
         IN {o \in [1..Cardinality(S) -> S] :
                \A i, j \in 1..Cardinality(S) : i # j => o[i] # o[j]}

\* lines 100-138: the commands after the first commit, and the Python
\* exception that ends them, if one does
TailSteps(rs, repo, repo_name, repo_path, branch_order) ==
    LET sub == SubmoduleSteps(rs, repo, repo_name, repo_path)
        br == BranchSteps(repo, repo_path, branch_order)
    IN IF sub.err # "none" THEN sub
       ELSE [cmds |-> sub.cmds \o br.cmds, err |-> br.err]

\* lines 85-86: if os.path.exists(repo_path): shutil.rmtree(repo_path)
remove_existing(f, repo_path) ==
    IF exists(f, repo_path) THEN rmtree(f, repo_path) ELSE f

\* the commands create_or_update_repo runs when none of them fails
AllCommands(rs, repo, branch_order) ==
    LET parts == Split(repo.name)
        repo_name == parts[Len(parts)]
        repo_path == IF Len(parts) = 2 THEN JoinPath(parts[1], parts[2])
                     ELSE repo_name
    IN IF Len(parts) \notin {1, 2} THEN <<>>
       ELSE <<IF "clone" \in DOMAIN repo
              THEN Command("clone", <<repo.clone, repo_path>>, <<>>)
              ELSE Command("init", <<>>, repo_path),
              Command("add", <<>>, repo_path),
              Command("commit", <<>>, repo_path)>>
            \o TailSteps(rs, repo, repo_name, repo_path, branch_order).cmds

create_or_update_repo(rs, repo, f, branch_order, fail_at) ==
    LET parts == Split(repo.name)
    IN IF Len(parts) \notin {1, 2}
       THEN [fs |-> f, cmds |-> <<>>, err |-> "ValueError"]
       ELSE
       LET repo_name == parts[Len(parts)]
           repo_path == IF Len(parts) = 2 THEN JoinPath(parts[1], parts[2])
                        ELSE repo_name
           \* lines 76-79
           f1 == IF Len(parts) = 2 /\ ~exists(f, parts[1])
                 THEN makedirs(f, parts[1]) ELSE f
           f2 == remove_existing(f1, repo_path)
           \* lines 88-92: a failed clone leaves nothing, a failed init
           \* leaves the directory made for it
           f3_failed == IF "clone" \in DOMAIN repo THEN f2
                        ELSE makedirs(f2, repo_path)
           f3 == [f2 EXCEPT ![repo_path] = FreshRepo]
           \* lines 93-96
           f4 == [f3 EXCEPT ![repo_path].readme = <<ReadmeText(repo)>>]
           \* lines 97-98
           f5 == [f4 EXCEPT ![repo_path].committed = TRUE]
           tail == TailSteps(rs, repo, repo_name, repo_path, branch_order)
           all == AllCommands(rs, repo, branch_order)
       IN IF fail_at = 0
          THEN [fs |-> f5, cmds |-> all, err |-> tail.err]
          ELSE [fs |-> IF fail_at = 1 THEN f3_failed
                       ELSE IF fail_at <= 3 THEN f4 ELSE f5,
                cmds |-> SubSeq(all, 1, fail_at),
                err |-> "CalledProcessError"]

-----------------------------------------------------------------------------
(* The configurations a run is started on *)

SeqsUpTo(S, n) == UNION {[1..k -> S] : k \in 0..n}

Optional(key, values) == {EmptyRec} \cup {key :> v : v \in values}

SubrepoRefs ==
    {[name |-> n, path |-> <<"s">>] @@ c :
        n \in Names, c \in Optional("clone", {ExternalURL})}

\* a repo record of the configuration file, as generate's walk reads it
WalkRecords ==
    {[name |-> n] @@ c @@ s :
        n \in Names,
        c \in Optional("clone", Names \cup {ExternalURL}),
        s \in Optional("subrepos", {<<r>> : r \in SubrepoRefs})}

\* the clone fields and subrepo references of a record: its links
LinksOf(r) ==
    (IF "clone" \in DOMAIN r THEN 1 ELSE 0)
    + (IF "subrepos" \in DOMAIN r
       THEN Len(r.subrepos)
            + Cardinality({i \in 1..Len(r.subrepos) :
                              "clone" \in DOMAIN r.subrepos[i]})
       ELSE 0)

RECURSIVE Links(_)
Links(rs) == IF rs = <<>> THEN 0 ELSE LinksOf(Head(rs)) + Links(Tail(rs))

RECURSIVE RepoLists(_, _)
\* the lists of at most n records with distinct names (the identity of a
\* RepoSpec is its name) and at most l links in all
RepoLists(n, l) ==
    IF n = 0 THEN {<<>>}
    ELSE LET shorter == RepoLists(n - 1, l)
         IN shorter \cup UNION {
                {Append(rs, r) :
                    r \in {q \in WalkRecords :
                              /\ \A i \in 1..Len(rs) : rs[i].name # q.name
                              /\ Links(rs) + LinksOf(q) <= l}} :
                rs \in {x \in shorter : Len(x) = n - 1}}

WalkTemplates ==
    {<<>>, <<[pattern |-> <<"a", "*">>, description |-> <<"d">>]>>}

WalkConfigs ==
    {t \o rs : t \in WalkTemplates, rs \in RepoLists(MaxRepos, MaxLinks)}

-----------------------------------------------------------------------------
(* generate, lines 168-198: the defaulting, the graph, the walk and the    *)
(* display, on the records Box.from_toml loaded (line 166).  Line 167,     *)
(* `repos = extract_subrepos(repos)`, reads the local `repos` before any   *)
(* assignment to it and raises UnboundLocalError; its result would be      *)
(* replaced at line 170 in any case.  The walk is modelled as the code of  *)
(* lines 168-198 stands, entered with data loaded.                         *)

InitRun ==
    /\ pc = "start"
    /\ sorted_patterns = <<>>
    /\ repos = <<>>
    /\ results = <<>>
    /\ graph = EmptyGraph
    /\ it = NewIterator
    /\ fs_pre = fs
    /\ yielded = <<>>
    /\ materialized = <<>>
    /\ cmds = <<>>
    /\ error = "none"

Init ==
    /\ data \in WalkConfigs
    /\ fs = EmptyTree
    /\ runs = 1
    /\ InitRun

\* lines 168-174
Defaults ==
    /\ pc = "start"
    /\ LET pattern_definitions ==
               SelectSeq(data, LAMBDA r : "pattern" \in DOMAIN r)
           sorted == sort_patterns(pattern_definitions)
           named == SelectSeq(data, LAMBDA r : "name" \in DOMAIN r)
       IN /\ sorted_patterns' = sorted
          /\ repos' = [i \in 1..Len(named) |->
                          apply_defaults_to_repo(named[i], sorted)]
    /\ pc' = "defaulted"
    /\ UNCHANGED <<data, results, graph, it, fs, fs_pre, yielded,
                   materialized, cmds, error, runs>>

\* lines 175-179: the graph, and the generator the loop will draw from
BuildGraph ==
    /\ pc = "defaulted"
    /\ graph' = build_dependency_graph(repos)
    /\ it' = NewIterator
    /\ pc' = "walk"
    /\ UNCHANGED <<data, sorted_patterns, repos, results, fs, fs_pre,
                   yielded, materialized, cmds, error, runs>>

\* lines 179-182: the generator yields a name that has a record
WalkMaterialize ==
    /\ pc = "walk"
    /\ LET n == TopoNext(graph, it)
       IN /\ n.out = "item"
          /\ Lookup(repos, n.node) # <<>>
          /\ LET repo == Lookup(repos, n.node)[1]
             IN \E branch_order \in BranchOrders(repo) :
                \E fail_at \in
                       0..Len(AllCommands(repos, repo, branch_order)) :
                    LET r == create_or_update_repo(repos, repo, fs,
                                                   branch_order, fail_at)
                    IN /\ fs' = r.fs
                       /\ cmds' = r.cmds
                       /\ error' = r.err
                       /\ pc' = IF r.err = "none" THEN "walk" ELSE "failed"
          /\ it' = n.it
          /\ yielded' = Append(yielded, n.node)
          /\ materialized' = Append(materialized, n.node)
          /\ fs_pre' = fs
    /\ UNCHANGED <<data, sorted_patterns, repos, results, graph, runs>>

\* lines 179-181: the generator yields a name with no record of its own
WalkSkip ==
    /\ pc = "walk"
    /\ LET n == TopoNext(graph, it)
       IN /\ n.out = "item"
          /\ Lookup(repos, n.node) = <<>>
          /\ it' = n.it
          /\ yielded' = Append(yielded, n.node)
    /\ UNCHANGED <<pc, data, sorted_patterns, repos, results, graph, fs,
                   fs_pre, materialized, cmds, error, runs>>

\* line 179: the generator raises NetworkXUnfeasible
WalkCycle ==
    /\ pc = "walk"
    /\ LET n == TopoNext(graph, it)
       IN /\ n.out = "unfeasible"
          /\ it' = n.it
    /\ pc' = "failed"
    /\ error' = "NetworkXUnfeasible"
    /\ UNCHANGED <<data, sorted_patterns, repos, results, graph, fs, fs_pre,
                   yielded, materialized, cmds, runs>>

\* line 179: the generator is exhausted
WalkEnd ==
    /\ pc = "walk"
    /\ LET n == TopoNext(graph, it)
       IN /\ n.out = "stop"
          /\ it' = n.it
    /\ pc' = "display"
    /\ UNCHANGED <<data, sorted_patterns, repos, results, graph, fs, fs_pre,
                   yielded, materialized, cmds, error, runs>>

\* lines 185-198 read repo.description of every repo, and the path and
\* name of every subrepo
Displayable(repo) ==
    /\ "description" \in DOMAIN repo
    /\ "subrepos" \in DOMAIN repo =>
           \A i \in 1..Len(repo.subrepos) :
               {"path", "name"} \subseteq DOMAIN repo.subrepos[i]

\* lines 184-198
Display ==
    /\ pc = "display"
    /\ IF \A i \in 1..Len(repos) : Displayable(repos[i])
       THEN pc' = "done" /\ error' = error
       ELSE pc' = "display_failed" /\ error' = "BoxKeyError"
    /\ UNCHANGED <<data, sorted_patterns, repos, results, graph, it, fs,
                   fs_pre, yielded, materialized, cmds, runs>>

\* the command is run again on the same file and directory
Rerun ==
    /\ pc \in {"done", "failed", "display_failed"}
    /\ runs < MaxRuns
    /\ runs' = runs + 1
    /\ pc' = "start"
    /\ sorted_patterns' = <<>>
    /\ repos' = <<>>
    /\ graph' = EmptyGraph
    /\ it' = NewIterator
    /\ fs_pre' = fs
    /\ yielded' = <<>>
    /\ materialized' = <<>>
    /\ cmds' = <<>>
    /\ error' = "none"
    /\ UNCHANGED <<data, results, fs>>

Next ==
    \/ Defaults
    \/ BuildGraph
    \/ WalkMaterialize
    \/ WalkSkip
    \/ WalkCycle
    \/ WalkEnd
    \/ Display

Spec == Init /\ [][Next]_vars

NextRerun == Next \/ Rerun

SpecRerun == Init /\ [][NextRerun]_vars

-----------------------------------------------------------------------------
(* The Pattern Defaulter on its own: sort_patterns, then                   *)
(* apply_defaults_to_repo applied to one record again and again.           *)

Globs == {<<"*">>, <<"?">>, <<"a", "*">>}

TemplateRecords ==
    {[pattern |-> g] @@ d @@ c :
        g \in Globs,
        d \in Optional("description", {<<"p">>, <<"q">>}),
        c \in Optional("clone", {<<"v">>})} \ {[pattern |-> g] : g \in Globs}

DefaultedRecords ==
    {[name |-> n] @@ d @@ c :
        n \in Names,
        d \in Optional("description", {<<"x">>}),
        c \in Optional("clone", {ExternalURL})}

InitDefaults ==
    /\ data \in {t \o <<r>> : t \in SeqsUpTo(TemplateRecords, MaxPatterns),
                              r \in DefaultedRecords}
    /\ pc = "patterns"
    /\ sorted_patterns = <<>>
    /\ repos = <<>>
    /\ results = <<>>
    /\ graph = EmptyGraph
    /\ it = NewIterator
    /\ fs = EmptyTree
    /\ fs_pre = EmptyTree
    /\ yielded = <<>>
    /\ materialized = <<>>
    /\ cmds = <<>>
    /\ error = "none"
    /\ runs = 0

\* the templates and the record of the input
TemplatesOf(d) == SelectSeq(d, LAMBDA r : "pattern" \in DOMAIN r)

RecordOf(d) == Head(SelectSeq(d, LAMBDA r : "name" \in DOMAIN r))

SortPatterns ==
    /\ pc = "patterns"
    /\ sorted_patterns' = sort_patterns(TemplatesOf(data))
    /\ pc' = "sorted"
    /\ UNCHANGED <<data, repos, results, graph, it, fs, fs_pre, yielded,
                   materialized, cmds, error, runs>>

\* apply_defaults_to_repo on the record the call before it returned
ApplyDefaults ==
    /\ pc = "sorted"
    /\ Len(results) < MaxApplications
    /\ results' = Append(results,
                         apply_defaults_to_repo(
                             IF results = <<>> THEN RecordOf(data)
                             ELSE results[Len(results)],
                             sorted_patterns))
    /\ UNCHANGED <<pc, data, sorted_patterns, repos, graph, it, fs, fs_pre,
                   yielded, materialized, cmds, error, runs>>

NextDefaults == SortPatterns \/ ApplyDefaults

SpecDefaults == InitDefaults /\ [][NextDefaults]_vars

-----------------------------------------------------------------------------
(* create_or_update_repo on its own, on records that carry the fields its  *)
(* lines 100-138 read.                                                     *)

MaterializerRecords ==
    {[name |-> n] @@ s @@ m @@ b @@ p :
        n \in Names,
        s \in Optional("subrepos",
                       {<<[name |-> k, path |-> <<"s">>]>> : k \in Names}),
        m \in Optional("submodules", {<<>>}),
        b \in Optional("branches", {<<<<"d">>>>}),
        p \in Optional("path", {<<"t">>})}

InitMaterializer ==
    /\ repos \in {rs \in SeqsUpTo(MaterializerRecords, MaxRepos) :
                     /\ rs # <<>>
                     /\ \A i, j \in 1..Len(rs) :
                            i # j => rs[i].name # rs[j].name}
    /\ pc = "call"
    /\ data = <<>>
    /\ sorted_patterns = <<>>
    /\ results = <<>>
    /\ graph = EmptyGraph
    /\ it = NewIterator
    /\ fs = EmptyTree
    /\ fs_pre = EmptyTree
    /\ yielded = <<>>
    /\ materialized = <<>>
    /\ cmds = <<>>
    /\ error = "none"
    /\ runs = 0

\* create_or_update_repo(repos, repos[i], base_path)
CreateOrUpdate ==
    /\ pc = "call"
    /\ \E i \in 1..Len(repos) :
       \E branch_order \in BranchOrders(repos[i]) :
       \E fail_at \in 0..Len(AllCommands(repos, repos[i], branch_order)) :
           LET r == create_or_update_repo(repos, repos[i], fs,
                                          branch_order, fail_at)
           IN /\ fs' = r.fs
              /\ cmds' = r.cmds
              /\ error' = r.err
              /\ pc' = IF r.err = "none" THEN "returned" ELSE "failed"
              /\ materialized' = <<repos[i].name>>
    /\ fs_pre' = fs
    /\ UNCHANGED <<data, sorted_patterns, repos, results, graph, it,
                   yielded, runs>>

NextMaterializer == CreateOrUpdate

SpecMaterializer == InitMaterializer /\ [][NextMaterializer]_vars

-----------------------------------------------------------------------------
(* Properties of the walk and of the materializer *)

TopLevelNames == {repos[i].name : i \in 1..Len(repos)}

SubrepoRefsOf(repo) ==
    IF "subrepos" \in DOMAIN repo THEN Range(repo.subrepos) ELSE {}

SubrepoNames == UNION {{s.name : s \in SubrepoRefsOf(r)} : r \in Range(repos)}

\* the dependency edges the configuration states: clone source -> repo,
\* subrepo -> parent
Dependencies ==
    {<<r.clone, r.name>> : r \in {q \in Range(repos) : "clone" \in DOMAIN q}}
    \cup UNION {{<<s.name, r.name>> : s \in SubrepoRefsOf(r)} :
                   r \in Range(repos)}
    \cup UNION {{<<s.clone, s.name>> :
                    s \in {q \in SubrepoRefsOf(r) : "clone" \in DOMAIN q}} :
                   r \in Range(repos)}

RECURSIVE ReachableFrom(_, _)
\* the nodes that the edges E lead to from the nodes S, in one step or more
ReachableFrom(S, E) ==
    LET T == S \cup {e[2] : e \in {d \in E : d[1] \in S}}
    IN IF T = S THEN S ELSE ReachableFrom(T, E)

Successors(n, E) == {e[2] : e \in {d \in E : d[1] = n}}

Acyclic(E) ==
    \A e \in E : e[1] \notin ReachableFrom(Successors(e[1], E), E)

\* u comes before v in the sequence, if v is in it at all
Before(u, v, seq) ==
    \A j \in 1..Len(seq) :
        seq[j] = v => \E i \in 1..(j - 1) : seq[i] = u

GraphBuilt == pc \in {"walk", "failed", "display", "done", "display_failed"}

WalkCompleted == pc \in {"display", "done", "display_failed"}

RepoPath(repo) == repo.name

-----------------------------------------------------------------------------
(* C1: for an acyclic configuration, the walk yields the source of every   *)
(* dependency edge (clone source -> repo, subrepo -> parent) before its    *)
(* target, and so materializes no repo before a repo it clones from or     *)
(* links as a submodule.                                                   *)
C1_DependenciesFirst ==
    (GraphBuilt /\ Acyclic(Dependencies)) =>
        \A e \in Dependencies :
            /\ Before(e[1], e[2], yielded)
            /\ e[1] \in TopLevelNames => Before(e[1], e[2], materialized)

\* a repo listed before the repo it depends on was materialized after it
C1_Witness ==
    /\ WalkCompleted
    /\ Acyclic(Dependencies)
    /\ \E i, j \in 1..Len(repos) :
           /\ i < j
           /\ <<repos[j].name, repos[i].name>> \in Dependencies
           /\ materialized = <<repos[j].name, repos[i].name>>

(* C2: when the dependency graph has a cycle, no repo is materialized: the *)
(* run ends before create_or_update_repo is invoked on any repo and the    *)
(* directory is as it was.                                                 *)
C2_NothingMaterializedUnderCycle ==
    (GraphBuilt /\ ~Acyclic(EdgeSet(graph))) =>
        (materialized = <<>> /\ fs = EmptyTree)

(* C3: when a command fails while node N is materialized, the walk stops   *)
(* there, the repos materialized before N stay materialized, and the path  *)
(* of N is as it was before N was visited.                                 *)
C3_FailedNodeUntouched ==
    (pc = "failed" /\ error = "CalledProcessError") =>
        LET N == materialized[Len(materialized)]
        IN /\ fs[N] = fs_pre[N]
           /\ \A i \in 1..(Len(materialized) - 1) :
                  /\ fs[materialized[i]].kind = "repo"
                  /\ fs[materialized[i]].committed

(* C6: the nodes of the graph are exactly the names of the top-level repos *)
(* and of their subrepos; a clone source that is no such name adds neither *)
(* a node nor an edge.                                                     *)
C6_NodesAreManagedNames ==
    GraphBuilt =>
        /\ NodeSet(graph) = TopLevelNames \cup SubrepoNames
        /\ \A e \in EdgeSet(graph) :
               e[1] \in TopLevelNames \cup SubrepoNames

(* C8: after every run that walked the whole graph, each repo path holds a *)
(* committed repository whose README is "# <name>", followed by a blank    *)
(* line and the description when one is set.                               *)
C8_ReadmeAfterEveryRun ==
    WalkCompleted =>
        \A r \in Range(repos) :
            /\ fs[RepoPath(r)].kind = "repo"
            /\ fs[RepoPath(r)].committed
            /\ fs[RepoPath(r)].readme = <<ReadmeText(r)>>

(* C9: when the walk has completed, create_or_update_repo has been invoked *)
(* exactly once for every repo that has a top-level record, and never for  *)
(* a name without one.                                                     *)
C9_EachRecordOnce ==
    WalkCompleted =>
        /\ Range(materialized) = TopLevelNames
        /\ Len(materialized) = Cardinality(TopLevelNames)

\* a completed walk over repos with and without edges, which also yielded
\* a name that has no record
C9_Witness ==
    /\ WalkCompleted
    /\ Len(materialized) = 2
    /\ Range(yielded) \ TopLevelNames # {}
    /\ \E i \in 1..Len(repos) :
           \A e \in Dependencies : repos[i].name \notin {e[1], e[2]}

\* the submodule add that links the subrepo of the entry: its repository
\* next to the parent's, at the entry's path
SubmoduleAddFor(entry, cwd) ==
    LET parts == Split(entry.name)
    IN Command("submodule add",
               <<<<".", ".", "/">> \o parts[Len(parts)]
                     \o <<".", "g", "i", "t">>,
                 entry.path>>,
               cwd)

(* C10: when create_or_update_repo returns for a record with subrepos, it  *)
(* has issued, for every entry of the list, one submodule add with that    *)
(* subrepo's name and path.                                                *)
C10_SubmoduleAddPerEntry ==
    (pc = "returned") =>
        LET repo == Lookup(repos, materialized[1])[1]
        IN \A entry \in SubrepoRefsOf(repo) :
               Cardinality({i \in 1..Len(cmds) :
                   cmds[i] = SubmoduleAddFor(entry, RepoPath(repo))}) = 1

-----------------------------------------------------------------------------
(* Properties of the Pattern Defaulter, on results[1] = the record after   *)
(* sort_patterns and one apply_defaults_to_repo.                           *)

AttributeKeys == {"description", "clone"}

\* the templates that match the record and define the key
Defining(key) ==
    LET t == TemplatesOf(data)
    IN {i \in 1..Len(t) :
           /\ fnmatch(RecordOf(data).name, t[i].pattern)
           /\ key \in DOMAIN t[i]}

(* C4: every attribute the record had keeps its value, and every attribute *)
(* it lacked takes the value of a matching template that defines it and    *)
(* has the longest pattern among those: no shorter pattern overrides it.   *)
C4_LongestPatternWins ==
    results # <<>> =>
        LET before == RecordOf(data)
            after == results[1]
            t == TemplatesOf(data)
        IN /\ \A key \in DOMAIN before : after[key] = before[key]
           /\ \A key \in AttributeKeys \ DOMAIN before :
                  IF Defining(key) = {} THEN key \notin DOMAIN after
                  ELSE /\ key \in DOMAIN after
                       /\ \E i \in Defining(key) :
                              /\ after[key] = t[i][key]
                              /\ \A j \in Defining(key) :
                                     Len(t[i].pattern) >= Len(t[j].pattern)
           /\ DOMAIN after \subseteq DOMAIN before \cup AttributeKeys

\* a shorter template listed first and a longer one both define the
\* description the record lacks, differently, and the record kept the
\* clone it had although a template defines one
C4_Witness ==
    /\ results # <<>>
    /\ LET t == TemplatesOf(data)
       IN /\ Len(t) = 2
          /\ Defining("description") = {1, 2}
          /\ Len(t[1].pattern) < Len(t[2].pattern)
          /\ t[1].description # t[2].description
          /\ "description" \notin DOMAIN RecordOf(data)
          /\ results[1].description = t[2].description
          /\ "clone" \in DOMAIN RecordOf(data)
          /\ Defining("clone") # {}

(* C5: applying apply_defaults_to_repo again to the record it returned     *)
(* returns the same record.                                                *)
C5_Idempotent ==
    \A i \in 2..Len(results) : results[i] = results[1]

\* defaults from two templates were applied, and applied again
C5_Witness ==
    /\ Len(results) >= 2
    /\ DOMAIN results[1] = DOMAIN RecordOf(data) \cup AttributeKeys
    /\ DOMAIN RecordOf(data) = {"name"}
    /\ \E i, j \in 1..Len(sorted_patterns) :
           /\ i # j
           /\ results[1].description = sorted_patterns[i].description
           /\ "description" \notin DOMAIN sorted_patterns[j]
           /\ results[1].clone = sorted_patterns[j].clone

====
